---- MODULE Spec2Model ----
(***************************************************************************)
(* The content-protection layer of SecureViewer Pro: the page (Index), the *)
(* Protection Supervisor (SecurityLayer) and the Viewing Surface           *)
(* (DocumentViewer), as one event-driven state machine.  One action per    *)
(* handler, timer callback or platform event; an action includes the       *)
(* React re-render the handler's state change causes, that is the mounting *)
(* and unmounting of components and the effects these run.                 *)
(***************************************************************************)
EXTENDS Integers, Sequences, FiniteSets, TLC

(***************************************************************************)
(* Bounds of the model.                                                    *)
(***************************************************************************)
\* the longest document list the user builds
MaxFiles == 3

\* the longest conversation in which the user still sends a message
MaxMessages == 5

(***************************************************************************)
(* Program constants.                                                      *)
(***************************************************************************)
Threshold == 160
InitialZoom == 100
ZoomStep == 25
MinZoom == 50
MaxZoom == 200

(***************************************************************************)
(* Inputs.  A MIME type is the sequence of its tokens, so that startsWith  *)
(* is a prefix test.  The user uploads documents of the Catalogue, in      *)
(* catalogue order; a list entry is the index of its document.             *)
(***************************************************************************)
Catalogue ==
    << [name |-> "a.png", type |-> <<"image", "/", "png">>],
       [name |-> "b.pdf", type |-> <<"application", "/", "pdf">>],
       [name |-> "c.bin", type |-> <<"application", "/", "octet-stream">>],
       [name |-> "d.pdf", type |-> <<"application", "/", "pdf">>],
       [name |-> "e.txt", type |-> <<"text", "/", "plain">>] >>

DocIds == 1..Len(Catalogue)

\* files[currentIndex] of an index outside the list is undefined
NoFile == 0

\* pdfData = null
NoData == 0

\* no zoom level rendered
NoZoom == 0

\* window.outerWidth - window.innerWidth, and the same for the height
Deltas == {Threshold, Threshold + 1}

SessionIds == {"s1", "s2"}

\* elements inserted into the document while the viewer is open, each the
\* root of the subtree of one insertion: one inside the viewer's tree, one
\* outside it (a toast)
Nodes == {"viewerNode", "toastNode"}

\* the elements inside an inserted subtree, below its root
Descendants(n) == IF n = "viewerNode" THEN {"viewerContent"} ELSE {}

\* the elements under document.body when the page has loaded
PresentAtLoad == {"rootNode"}

VARIABLES
    \* Index.tsx
    files,                \* sequence of DocIds
    isProcessing,
    isFullscreen,
    currentFileIndex,
    \* SecurityLayer
    devToolsOpen,
    screenCaptureAttempt,
    \* DocumentViewer
    zoom,
    sessionId,
    isBlurred,
    pdfData,              \* NoData, or the document whose data URL it holds
    readers,              \* documents with a FileReader of the mounted viewer in flight
    orphanReading,        \* whether a FileReader of an unmounted viewer is in flight
    shownSessionId,       \* history: the identifier in the watermark last rendered since the viewer opened
    shownZoom,            \* history: the zoom level last rendered since the viewer opened, NoZoom when closed
    shownBlurred,         \* history: the values of isBlurred that agree with the one last rendered and the
                          \* blur, focus and visibility events since; an event with no viewer mounted allows both
    \* the platform
    windowFocused,
    documentHidden,
    getDisplayMedia,      \* navigator.mediaDevices.getDisplayMedia: "absent", "original" or "stub"
    listeners,            \* the event listeners registered on document and window
    timers,               \* the callbacks of the intervals that are set
    observing,            \* whether the MutationObserver of SecurityLayer observes document.body
    protected,            \* the elements that carry a selectstart handler of the observer
    inDocument,           \* the elements under document.body
    mutationObserver,     \* window.MutationObserver: "present" or "absent"
    crashed,              \* an effect threw: React has unmounted the whole tree of the page
    \* AIFeedbackChatbot (part_000)
    messages,             \* the conversation: the kind of each message, the welcome first
    input,                \* the text of the input field
    isLoading,
    isCreatingTicket,
    showQuickActions,
    handlerIsLoading,     \* isLoading as captured by the handlers of the last render
    inFlight              \* the sends that await: their text and what they await

indexVars == <<files, isProcessing, isFullscreen, currentFileIndex>>
layerVars == <<devToolsOpen, screenCaptureAttempt>>
viewerVars == <<zoom, sessionId, isBlurred, pdfData, readers, orphanReading, shownSessionId,
               shownZoom, shownBlurred>>
windowVars == <<windowFocused, documentHidden>>
captureVars == <<getDisplayMedia>>
hostVars == <<listeners, timers, observing, protected, inDocument, mutationObserver, crashed>>
vaultVars == <<indexVars, layerVars, viewerVars, windowVars, captureVars, hostVars>>
chatVars == <<messages, input, isLoading, isCreatingTicket, showQuickActions,
              handlerIsLoading, inFlight>>
vars == <<vaultVars, chatVars>>

(***************************************************************************)
(* Pure functions.                                                         *)
(***************************************************************************)
StartsWith(s, prefix) ==
    /\ Len(s) >= Len(prefix)
    /\ SubSeq(s, 1, Len(prefix)) = prefix

TypeOf(d) == Catalogue[d].type

IsPdf(d) == d # NoFile /\ TypeOf(d) = <<"application", "/", "pdf">>

\* const currentFile = files[currentIndex]
FileAt(fs, i) == IF i + 1 \in DOMAIN fs THEN fs[i + 1] ELSE NoFile

currentFile == FileAt(files, currentFileIndex)

Min(a, b) == IF a < b THEN a ELSE b
Max(a, b) == IF a > b THEN a ELSE b

\* zoom-in that clamps one step too high
ZoomIn_ClampsLate(z) == Min(z + ZoomStep, MaxZoom + ZoomStep)

ZoomIn(z) == Min(z + ZoomStep, MaxZoom)
\* zoom-out that clamps one step too low
ZoomOut_ClampsLate(z) == Max(z - ZoomStep, MinZoom - ZoomStep)

ZoomOut(z) == Max(z - ZoomStep, MinZoom)

\* forward navigation that wraps around to the first document
NextIndex_Wraps(i, len) == IF len = 0 THEN i ELSE (i + 1) % len

NextIndex(i, len) == IF i < len - 1 THEN i + 1 ELSE i
PrevIndex(i) == IF i > 0 THEN i - 1 ELSE i

\* a heuristic that fires at the threshold already
Detected_AtThreshold(w, h) == w >= Threshold \/ h >= Threshold

Detected(w, h) == w > Threshold \/ h > Threshold

Remove(fs, d) == SelectSeq(fs, LAMBDA f : f # d)

(***************************************************************************)
(* What is on screen, as the three render functions compute it.            *)
(***************************************************************************)
\* a selection that takes every 'application/' type for a PDF
renderContent_PdfByPrefix ==
    IF currentFile = NoFile THEN "nothing"
    ELSE IF StartsWith(TypeOf(currentFile), <<"image", "/">>) THEN "image"
    ELSE IF StartsWith(TypeOf(currentFile), <<"application", "/">>)
         THEN (IF pdfData = NoData THEN "loading" ELSE "frame")
    ELSE IF StartsWith(TypeOf(currentFile), <<"text", "/">>) THEN "text"
    ELSE "unavailable"

renderContent ==
    IF currentFile = NoFile THEN "nothing"
    ELSE IF StartsWith(TypeOf(currentFile), <<"image", "/">>) THEN "image"
    ELSE IF TypeOf(currentFile) = <<"application", "/", "pdf">>
         THEN (IF pdfData = NoData THEN "loading" ELSE "frame")
    ELSE IF StartsWith(TypeOf(currentFile), <<"text", "/">>) THEN "text"
    ELSE "unavailable"

\* the 'File:' and 'Type:' lines of the 'Preview not available' placeholder
PlaceholderLabel ==
    [file |-> Catalogue[currentFile].name, type |-> Catalogue[currentFile].type]

\* a viewer that renders content whatever isBlurred
DocumentViewerRender_IgnoresBlur == renderContent

DocumentViewerRender == IF isBlurred THEN "ContentProtected" ELSE renderContent

\* a layer that renders its children during a capture attempt
SecurityLayerRender_NoCaptureView ==
    IF devToolsOpen THEN "AccessDenied" ELSE "children"

\* a layer that tests the capture flag before the inspection flag
SecurityLayerRender_CaptureFirst ==
    IF screenCaptureAttempt THEN "CaptureBlocked"
    ELSE IF devToolsOpen THEN "AccessDenied"
    ELSE "children"

SecurityLayerRender ==
    IF devToolsOpen THEN "AccessDenied"
    ELSE IF screenCaptureAttempt THEN "CaptureBlocked"
    ELSE "children"

View ==
    IF crashed THEN "blank"
    ELSE IF ~isFullscreen THEN "index"
    ELSE IF SecurityLayerRender = "children" THEN DocumentViewerRender
    ELSE SecurityLayerRender

\* the DocumentViewer is in the tree
ViewerMounted == isFullscreen /\ SecurityLayerRender = "children"

(***************************************************************************)
(* Event listeners.  A listener is the record of its addEventListener      *)
(* call; removeEventListener removes the record with the same fields.      *)
(***************************************************************************)
Listener(target, type, handler, capture) ==
    [target |-> target, type |-> type, handler |-> handler, capture |-> capture]

ClipboardTypes == {"copy", "cut", "paste"}
DragTypes == {"dragstart", "drag", "dragenter", "dragover", "drop"}

\* an effect that forgets the drop listener
LayerListeners_NoDrop ==
    {Listener("document", "keydown", "SecurityLayer.handleKeyDown", FALSE)}
    \cup {Listener("document", t, "blockClipboard", FALSE) : t \in ClipboardTypes}
    \cup {Listener("document", t, "blockDragDrop", FALSE) : t \in DragTypes \ {"drop"}}
    \cup {Listener("window", "beforeprint", "blockPrint", FALSE)}

\* a second effect that stops at the capture step when the API is absent
LayerListeners_NeedsCaptureApi ==
    {Listener("document", "keydown", "SecurityLayer.handleKeyDown", FALSE)}
    \cup (IF getDisplayMedia = "absent" THEN {}
          ELSE {Listener("document", t, "blockClipboard", FALSE) : t \in ClipboardTypes}
               \cup {Listener("document", t, "blockDragDrop", FALSE) : t \in DragTypes}
               \cup {Listener("window", "beforeprint", "blockPrint", FALSE)})

\* addEventListener calls of the two effects of SecurityLayer
LayerListeners ==
    {Listener("document", "keydown", "SecurityLayer.handleKeyDown", FALSE)}
    \cup {Listener("document", t, "blockClipboard", FALSE) : t \in ClipboardTypes}
    \cup {Listener("document", t, "blockDragDrop", FALSE) : t \in DragTypes}
    \cup {Listener("window", "beforeprint", "blockPrint", FALSE)}

\* removeEventListener calls of their cleanups
LayerCleanup ==
    {Listener("document", "keydown", "SecurityLayer.handleKeyDown", FALSE)}
    \cup {Listener("document", t, "blockClipboard", FALSE) : t \in ClipboardTypes}
    \cup {Listener("document", t, "blockDragDrop", FALSE) : t \in DragTypes}
    \cup {Listener("window", "beforeprint", "blockPrint", FALSE)}

\* addEventListener calls of the effects of DocumentViewer
ViewerListeners ==
    { Listener("document", "contextmenu", "handleContextMenu", FALSE),
      Listener("document", "keydown", "DocumentViewer.handleKeyDown", TRUE),
      Listener("document", "visibilitychange", "handleVisibilityChange", FALSE),
      Listener("window", "blur", "handleBlur", FALSE),
      Listener("window", "focus", "handleFocus", FALSE) }

\* removeEventListener calls of their cleanups
ViewerCleanup ==
    { Listener("document", "contextmenu", "handleContextMenu", FALSE),
      Listener("document", "keydown", "DocumentViewer.handleKeyDown", TRUE),
      Listener("document", "visibilitychange", "handleVisibilityChange", FALSE),
      Listener("window", "blur", "handleBlur", FALSE),
      Listener("window", "focus", "handleFocus", FALSE) }

Registered(handler) == \E l \in listeners : l.handler = handler

\* the handlers that call e.preventDefault(); blockPrint only returns false
CallsPreventDefault(handler) ==
    handler \in {"blockClipboard", "blockDragDrop", "handleContextMenu"}

\* whether an event of this type, dispatched now, has its default cancelled
Cancelled(type) ==
    \E l \in listeners : l.type = type /\ CallsPreventDefault(l.handler)

(***************************************************************************)
(* Key events.                                                             *)
(***************************************************************************)
Key(key, ctrlKey, shiftKey) ==
    [key |-> key, ctrlKey |-> ctrlKey, shiftKey |-> shiftKey]

\* the key presses the model delivers
KeyEvents ==
    { Key("F12", FALSE, FALSE),
      Key("I", TRUE, TRUE),
      Key("U", TRUE, TRUE),
      Key("u", TRUE, FALSE),
      Key("f", TRUE, FALSE),
      Key("a", FALSE, FALSE) }

\* String.prototype.toLowerCase on the key names
ToLowerCase(key) ==
    CASE key = "I" -> "i"
      [] key = "C" -> "c"
      [] key = "U" -> "u"
      [] key = "R" -> "r"
      [] key = "F" -> "f"
      [] key = "P" -> "p"
      [] key = "Z" -> "z"
      [] key = "Y" -> "y"
      [] key = "F5" -> "f5"
      [] key = "F12" -> "f12"
      [] OTHER -> key

\* the condition of handleKeyDown of DocumentViewer
ViewerKeyMatch(e) ==
    \/ e.ctrlKey /\ ToLowerCase(e.key) \in {"c", "v", "a", "s", "p", "u", "r", "z", "y"}
    \/ e.key = "F12"
    \/ e.ctrlKey /\ e.shiftKey /\ ToLowerCase(e.key) \in {"i", "c", "s"}
    \/ e.key = "F5"
    \/ e.key = "PrintScreen"

\* the condition of handleKeyDown of SecurityLayer
LayerKeyMatch(e) ==
    \/ e.key = "F12"
    \/ e.ctrlKey /\ e.shiftKey /\ e.key = "I"
    \/ e.ctrlKey /\ e.shiftKey /\ e.key = "C"
    \/ e.ctrlKey /\ e.key = "U"

\* the capturing listener of DocumentViewer matched: preventDefault and
\* stopPropagation, so the event does not reach the bubbling listeners
StoppedByViewer(e) ==
    Registered("DocumentViewer.handleKeyDown") /\ ViewerKeyMatch(e)

\* a SecurityLayer whose listener sees every key press
LayerKeyRuns_Always(e) == Registered("SecurityLayer.handleKeyDown")

\* handleKeyDown of SecurityLayer runs for the event
LayerKeyRuns(e) ==
    Registered("SecurityLayer.handleKeyDown") /\ ~StoppedByViewer(e)

\* whether a key press, dispatched now, has its default cancelled: by the
\* capturing listener of DocumentViewer, or by the listener of SecurityLayer
\* when the event reaches it
KeyCancelled(e) ==
    \/ StoppedByViewer(e)
    \/ LayerKeyRuns(e) /\ LayerKeyMatch(e)

\* the shortcuts by class, each letter as the browser reports it without
\* and with Shift or Caps Lock
InspectionShortcuts ==
    { Key("F12", FALSE, FALSE), Key("I", TRUE, TRUE), Key("i", TRUE, TRUE),
      Key("C", TRUE, TRUE), Key("c", TRUE, TRUE),
      Key("u", TRUE, FALSE), Key("U", TRUE, FALSE) }
ReloadShortcuts ==
    { Key("r", TRUE, FALSE), Key("R", TRUE, FALSE), Key("F5", FALSE, FALSE) }
FindShortcuts == { Key("f", TRUE, FALSE), Key("F", TRUE, FALSE) }
PrintShortcuts == { Key("p", TRUE, FALSE), Key("P", TRUE, FALSE) }
UndoShortcuts == { Key("z", TRUE, FALSE), Key("Z", TRUE, FALSE) }
RedoShortcuts == { Key("y", TRUE, FALSE), Key("Y", TRUE, FALSE) }

\* the key press, dispatched now, runs the setDevToolsOpen(true) of
\* handleKeyDown of SecurityLayer
KeySetsDevToolsOpen(e) == LayerKeyRuns(e) /\ LayerKeyMatch(e)

(***************************************************************************)
(* Mounting, unmounting and the effects of the DocumentViewer.             *)
(***************************************************************************)
\* the conversion effect, as run for the file that is current after the step
ConversionEffect(live) ==
    IF IsPdf(currentFile')
    THEN /\ readers' = live \cup {currentFile'}
         /\ pdfData' = pdfData
    ELSE /\ readers' = live
         /\ pdfData' = NoData

MountViewer ==
    /\ zoom' = InitialZoom
    /\ sessionId' \in SessionIds
    /\ shownSessionId' = sessionId'
    /\ shownZoom' = zoom'
    /\ isBlurred' = FALSE
    /\ shownBlurred' = {isBlurred'}
    /\ orphanReading' = orphanReading
    /\ IF IsPdf(currentFile')
       THEN readers' = {currentFile'}
       ELSE readers' = {}
    /\ pdfData' = NoData

UnmountViewer ==
    /\ zoom' = InitialZoom
    /\ sessionId' = "none"
    /\ shownSessionId' = (IF isFullscreen' THEN sessionId ELSE "none")
    /\ shownZoom' = (IF isFullscreen' THEN zoom ELSE NoZoom)
    /\ shownBlurred' = (IF isFullscreen' THEN {isBlurred} ELSE BOOLEAN)
    /\ isBlurred' = FALSE
    /\ pdfData' = NoData
    /\ readers' = {}
    /\ orphanReading' = (orphanReading \/ readers # {})

\* setInterval calls of the first effect of SecurityLayer
LayerTimers == {"detectDevTools", "consoleCleaner"}

\* clearInterval calls of its cleanup
LayerClearedTimers == {"detectDevTools", "consoleCleaner"}

\* the listeners, timers and observer after the cleanups of what unmounts
\* and the effects of what mounts in the step; no cleanup removes a
\* selectstart handler from an element
Install ==
    /\ listeners' =
          ((listeners \ (IF isFullscreen /\ ~isFullscreen' THEN LayerCleanup ELSE {}))
                     \ (IF ViewerMounted /\ ~ViewerMounted' THEN ViewerCleanup ELSE {}))
          \cup (IF isFullscreen' /\ ~isFullscreen THEN LayerListeners ELSE {})
          \cup (IF ViewerMounted' /\ ~ViewerMounted THEN ViewerListeners ELSE {})
    /\ timers' =
          (timers \ (IF isFullscreen /\ ~isFullscreen' THEN LayerClearedTimers ELSE {}))
          \cup (IF isFullscreen' /\ ~isFullscreen THEN LayerTimers ELSE {})
    /\ observing' =
          IF isFullscreen' /\ ~isFullscreen THEN TRUE
          ELSE IF isFullscreen /\ ~isFullscreen' THEN FALSE
          ELSE observing
    /\ protected' = protected
    /\ UNCHANGED <<inDocument, mutationObserver, crashed>>
    /\ UNCHANGED chatVars

\* the re-render after a step that set the state of Index or SecurityLayer
Reconcile ==
    /\ Install
    /\ IF ViewerMounted' /\ ~ViewerMounted THEN MountViewer
       ELSE IF ViewerMounted /\ ~ViewerMounted' THEN UnmountViewer
       ELSE IF ViewerMounted /\ currentFile' # currentFile
            THEN /\ ConversionEffect(readers)
                 /\ UNCHANGED <<zoom, sessionId, isBlurred, orphanReading,
                                shownSessionId, shownZoom, shownBlurred>>
       ELSE UNCHANGED viewerVars

(***************************************************************************)
(* Mounting and unmounting of the SecurityLayer.                           *)
(***************************************************************************)
\* a start that leaves the platform's function in place
detectScreenCapture_NoStub == getDisplayMedia' = getDisplayMedia

detectScreenCapture ==
    getDisplayMedia' = IF getDisplayMedia = "absent" THEN "absent" ELSE "stub"

\* what a call of getDisplayMedia returns to its caller: the stub rejects,
\* the platform's own function runs and resolves
GetDisplayMediaResult ==
    IF getDisplayMedia = "stub" THEN "rejected" ELSE "resolved"

\* a stub whose setter writes the flag with no SecurityLayer mounted
StubSetsFlag_AfterTeardown ==
    IF getDisplayMedia = "stub" THEN TRUE ELSE screenCaptureAttempt

\* the stub's setScreenCaptureAttempt(true) reaches the SecurityLayer that
\* installed it, while that one is mounted
StubSetsFlag ==
    IF getDisplayMedia = "stub" /\ isFullscreen THEN TRUE ELSE screenCaptureAttempt

\* a teardown that puts the platform's function back
CaptureAfterCleanup_Restores ==
    IF getDisplayMedia = "stub" THEN "original" ELSE getDisplayMedia

\* navigator.mediaDevices.getDisplayMedia after the cleanup of the second
\* effect: the cleanup removes listeners only, the assignment is not undone
CaptureAfterCleanup == getDisplayMedia

(***************************************************************************)
(* Initial state: the page as loaded, nothing uploaded.                    *)
(***************************************************************************)
Loaded ==
    /\ files = <<>>
    /\ isProcessing = FALSE
    /\ isFullscreen = FALSE
    /\ currentFileIndex = 0
    /\ devToolsOpen = FALSE
    /\ screenCaptureAttempt = FALSE
    /\ zoom = InitialZoom
    /\ sessionId = "none"
    /\ isBlurred = FALSE
    /\ pdfData = NoData
    /\ readers = {}
    /\ orphanReading = FALSE
    /\ windowFocused = TRUE
    /\ documentHidden = FALSE
    /\ getDisplayMedia \in {"absent", "original"}
    /\ listeners = {}
    /\ shownSessionId = "none"
    /\ shownZoom = NoZoom
    /\ shownBlurred = BOOLEAN
    /\ timers = {}
    /\ observing = FALSE
    /\ protected = {}
    /\ inDocument = PresentAtLoad
    /\ crashed = FALSE
    /\ messages = <<"welcome">>
    /\ input = ""
    /\ isLoading = FALSE
    /\ isCreatingTicket = FALSE
    /\ showQuickActions = TRUE
    /\ handlerIsLoading = FALSE
    /\ inFlight = <<>>

\* a host that has the MutationObserver API
Init == Loaded /\ mutationObserver = "present"

\* any host
SupervisorInit == Loaded /\ mutationObserver \in {"present", "absent"}

(***************************************************************************)
(* Index.tsx                                                               *)
(***************************************************************************)
\* handleFiles: the upload of one document appends it to the list
AddFile(d) ==
    /\ ~crashed
    /\ Len(files) < MaxFiles
    /\ \A i \in DOMAIN files : files[i] < d
    /\ files' = Append(files, d)
    /\ UNCHANGED <<isProcessing, isFullscreen, currentFileIndex>>
    /\ UNCHANGED <<layerVars, windowVars, captureVars>>
    /\ Reconcile

\* removeFile, from the list the page shows while the viewer is closed
RemoveFile(d) ==
    /\ ~crashed
    /\ ~isFullscreen
    /\ \E i \in DOMAIN files : files[i] = d
    /\ files' = Remove(files, d)
    /\ UNCHANGED <<isProcessing, isFullscreen, currentFileIndex>>
    /\ UNCHANGED <<layerVars, viewerVars, windowVars, captureVars, hostVars, chatVars>>

\* processFiles: the button is disabled while the list is empty or processing
ProcessFiles ==
    /\ ~crashed
    /\ ~isFullscreen
    /\ ~isProcessing
    /\ Len(files) # 0
    /\ isProcessing' = TRUE
    /\ UNCHANGED <<files, isFullscreen, currentFileIndex>>
    /\ UNCHANGED <<layerVars, viewerVars, windowVars, captureVars, hostVars, chatVars>>

\* the timeout processFiles set: the viewer opens, the SecurityLayer mounts
ProcessTimer ==
    /\ isProcessing
    /\ mutationObserver = "present"
    /\ isProcessing' = FALSE
    /\ isFullscreen' = TRUE
    /\ UNCHANGED <<files, currentFileIndex>>
    /\ UNCHANGED <<layerVars, windowVars>>
    /\ detectScreenCapture
    /\ Reconcile

\* the same timeout on a host without MutationObserver: the effects of
\* DocumentViewer and the first two effects of SecurityLayer run, then
\* 'new MutationObserver' throws a ReferenceError in the third effect; no
\* error boundary is below Index, so React unmounts the tree: the cleanups
\* undo the listeners and intervals, the stub stays, a conversion that was
\* started goes on
ProcessTimerThrows ==
    /\ isProcessing
    /\ mutationObserver = "absent"
    /\ isProcessing' = FALSE
    /\ crashed' = TRUE
    /\ detectScreenCapture
    /\ orphanReading' = (orphanReading \/ IsPdf(currentFile))
    /\ UNCHANGED <<files, isFullscreen, currentFileIndex>>
    /\ UNCHANGED <<zoom, sessionId, isBlurred, pdfData, readers, shownSessionId,
                   shownZoom, shownBlurred>>
    /\ UNCHANGED <<layerVars, windowVars>>
    /\ UNCHANGED <<listeners, timers, observing, protected, inDocument, mutationObserver>>
    /\ UNCHANGED chatVars

\* onClose: the close button of the viewer; everything unmounts
OnClose ==
    /\ ViewerMounted
    /\ isFullscreen' = FALSE
    /\ devToolsOpen' = FALSE
    /\ screenCaptureAttempt' = FALSE
    /\ getDisplayMedia' = CaptureAfterCleanup
    /\ UNCHANGED <<files, isProcessing, currentFileIndex>>
    /\ UNCHANGED windowVars
    /\ Reconcile

(***************************************************************************)
(* DocumentViewer.  Its operations are taken for every call made while it  *)
(* is mounted: the disabled state of a button is no guard of its handler.  *)
(***************************************************************************)
handleZoomIn ==
    /\ ViewerMounted
    /\ zoom' = ZoomIn(zoom)
    /\ UNCHANGED <<sessionId, isBlurred, pdfData, readers, orphanReading,
                   shownSessionId, shownBlurred>>
    /\ shownZoom' = zoom'
    /\ UNCHANGED <<indexVars, layerVars, windowVars, captureVars, hostVars, chatVars>>

handleZoomOut ==
    /\ ViewerMounted
    /\ zoom' = ZoomOut(zoom)
    /\ UNCHANGED <<sessionId, isBlurred, pdfData, readers, orphanReading,
                   shownSessionId, shownBlurred>>
    /\ shownZoom' = zoom'
    /\ UNCHANGED <<indexVars, layerVars, windowVars, captureVars, hostVars, chatVars>>

\* a navigation that puts the zoom back to its initial level
nextFile_ResetsZoom ==
    /\ ViewerMounted
    /\ currentFileIndex' = NextIndex(currentFileIndex, Len(files))
    /\ UNCHANGED <<files, isProcessing, isFullscreen>>
    /\ UNCHANGED <<layerVars, windowVars, captureVars>>
    /\ Install
    /\ zoom' = IF currentFileIndex' # currentFileIndex THEN InitialZoom ELSE zoom
    /\ IF currentFile' # currentFile
       THEN ConversionEffect(readers)
       ELSE UNCHANGED <<pdfData, readers>>
    /\ UNCHANGED <<sessionId, isBlurred, orphanReading, shownSessionId, shownBlurred>>
    /\ shownZoom' = zoom'

nextFile ==
    /\ ViewerMounted
    /\ currentFileIndex' = NextIndex(currentFileIndex, Len(files))
    /\ UNCHANGED <<files, isProcessing, isFullscreen>>
    /\ UNCHANGED <<layerVars, windowVars, captureVars>>
    /\ Reconcile

prevFile ==
    /\ ViewerMounted
    /\ currentFileIndex' = PrevIndex(currentFileIndex)
    /\ UNCHANGED <<files, isProcessing, isFullscreen>>
    /\ UNCHANGED <<layerVars, windowVars, captureVars>>
    /\ Reconcile

\* reader.onload of a conversion the mounted viewer started
ReaderLoad(d) ==
    /\ d \in readers
    /\ readers' = readers \ {d}
    /\ pdfData' = d
    /\ UNCHANGED <<zoom, sessionId, isBlurred, orphanReading, shownSessionId,
                   shownZoom, shownBlurred>>
    /\ UNCHANGED <<indexVars, layerVars, windowVars, captureVars, hostVars, chatVars>>

\* reader.onerror: logged, no state is set
ReaderError(d) ==
    /\ d \in readers
    /\ readers' = readers \ {d}
    /\ UNCHANGED <<zoom, sessionId, isBlurred, pdfData, orphanReading,
                   shownSessionId, shownZoom, shownBlurred>>
    /\ UNCHANGED <<indexVars, layerVars, windowVars, captureVars, hostVars, chatVars>>

\* the last conversion in flight of the unmounted viewers ends: its
\* setPdfData reaches no state (the end of an earlier one changes nothing)
OrphanReaderDone ==
    /\ orphanReading
    /\ orphanReading' = FALSE
    /\ UNCHANGED <<zoom, sessionId, isBlurred, pdfData, readers, shownSessionId,
                   shownZoom, shownBlurred>>
    /\ UNCHANGED <<indexVars, layerVars, windowVars, captureVars, hostVars, chatVars>>

\* the window loses focus; handleBlur runs when registered
WindowBlur ==
    /\ windowFocused
    /\ windowFocused' = FALSE
    /\ isBlurred' = IF Registered("handleBlur") THEN TRUE ELSE isBlurred
    /\ UNCHANGED documentHidden
    /\ UNCHANGED <<zoom, sessionId, pdfData, readers, orphanReading,
                   shownSessionId, shownZoom>>
    /\ shownBlurred' = IF ViewerMounted THEN {isBlurred'} ELSE BOOLEAN
    /\ UNCHANGED <<indexVars, layerVars, captureVars, hostVars, chatVars>>

\* the window gains focus; handleFocus runs when registered
WindowFocus ==
    /\ ~windowFocused
    /\ windowFocused' = TRUE
    /\ isBlurred' = IF Registered("handleFocus") THEN FALSE ELSE isBlurred
    /\ UNCHANGED documentHidden
    /\ UNCHANGED <<zoom, sessionId, pdfData, readers, orphanReading,
                   shownSessionId, shownZoom>>
    /\ shownBlurred' = IF ViewerMounted THEN {isBlurred'} ELSE BOOLEAN
    /\ UNCHANGED <<indexVars, layerVars, captureVars, hostVars, chatVars>>

\* the page is hidden or shown; handleVisibilityChange reads document.hidden
VisibilityChange ==
    /\ documentHidden' = ~documentHidden
    /\ isBlurred' = IF Registered("handleVisibilityChange")
                    THEN documentHidden'
                    ELSE isBlurred
    /\ UNCHANGED windowFocused
    /\ UNCHANGED <<zoom, sessionId, pdfData, readers, orphanReading,
                   shownSessionId, shownZoom>>
    /\ shownBlurred' = IF ViewerMounted THEN {isBlurred'} ELSE BOOLEAN
    /\ UNCHANGED <<indexVars, layerVars, captureVars, hostVars, chatVars>>

(***************************************************************************)
(* SecurityLayer                                                           *)
(***************************************************************************)
\* the 500 ms poll; it measures the size deltas w and h
\* a poll whose quiet measure clears the capture flag as well
detectDevTools_ClearsCapture(w, h) ==
    /\ "detectDevTools" \in timers
    /\ devToolsOpen' = Detected(w, h)
    /\ screenCaptureAttempt' = (screenCaptureAttempt /\ Detected(w, h))
    /\ UNCHANGED <<indexVars, windowVars, captureVars>>
    /\ Reconcile

\* a poll with no else branch: it sets the flag and never clears it
detectDevTools_SetsOnly(w, h) ==
    /\ "detectDevTools" \in timers
    /\ devToolsOpen' = (devToolsOpen \/ Detected(w, h))
    /\ UNCHANGED screenCaptureAttempt
    /\ UNCHANGED <<indexVars, windowVars, captureVars>>
    /\ Reconcile

detectDevTools(w, h) ==
    /\ "detectDevTools" \in timers
    /\ devToolsOpen' = Detected(w, h)
    /\ UNCHANGED screenCaptureAttempt
    /\ UNCHANGED <<indexVars, windowVars, captureVars>>
    /\ Reconcile

\* a key press: the capturing listener of DocumentViewer first, then the
\* listener of SecurityLayer when the event still propagates
KeyDown(e) ==
    /\ isFullscreen
    /\ devToolsOpen' = IF KeySetsDevToolsOpen(e) THEN TRUE ELSE devToolsOpen
    /\ UNCHANGED screenCaptureAttempt
    /\ UNCHANGED <<indexVars, windowVars, captureVars>>
    /\ Reconcile

\* a call of navigator.mediaDevices.getDisplayMedia by any script of the page
CallGetDisplayMedia ==
    /\ getDisplayMedia # "absent"
    /\ screenCaptureAttempt' = StubSetsFlag
    /\ UNCHANGED <<devToolsOpen, getDisplayMedia>>
    /\ UNCHANGED <<indexVars, windowVars>>
    /\ Reconcile

\* an acknowledgement offered on either obstruction that dismisses both
Continue_Dismisses ==
    /\ isFullscreen
    /\ SecurityLayerRender # "children"
    /\ screenCaptureAttempt' = FALSE
    /\ devToolsOpen' = FALSE
    /\ UNCHANGED <<indexVars, windowVars, captureVars>>
    /\ Reconcile

\* the Continue button of the capture obstruction
Continue ==
    /\ isFullscreen
    /\ SecurityLayerRender = "CaptureBlocked"
    /\ screenCaptureAttempt' = FALSE
    /\ UNCHANGED devToolsOpen
    /\ UNCHANGED <<indexVars, windowVars, captureVars>>
    /\ Reconcile

\* the 1000 ms interval: console.clear(), no state is set
consoleCleaner ==
    /\ "consoleCleaner" \in timers
    /\ UNCHANGED vars

\* an element is inserted under document.body (a toast, a node of another
\* script, a node React commits); the observer's callback, when observing,
\* marks it and attaches a selectstart handler to it
NodeInserted(n) ==
    /\ n \notin inDocument
    /\ inDocument' = inDocument \cup {n} \cup Descendants(n)
    /\ protected' = IF observing THEN protected \cup {n} ELSE protected
    /\ UNCHANGED <<listeners, timers, observing, mutationObserver, crashed>>
    /\ UNCHANGED chatVars
    /\ UNCHANGED <<indexVars, layerVars, viewerVars, windowVars, captureVars>>

Next ==
    \/ \E d \in DocIds : AddFile(d)
    \/ \E d \in DocIds : RemoveFile(d)
    \/ ProcessFiles
    \/ ProcessTimer
    \/ OnClose
    \/ handleZoomIn
    \/ handleZoomOut
    \/ nextFile
    \/ prevFile
    \/ \E d \in DocIds : ReaderLoad(d)
    \/ \E d \in DocIds : ReaderError(d)
    \/ OrphanReaderDone
    \/ WindowBlur
    \/ WindowFocus
    \/ VisibilityChange
    \/ \E w \in Deltas, h \in Deltas : detectDevTools(w, h)
    \/ consoleCleaner
    \/ \E e \in KeyEvents : KeyDown(e)
    \/ CallGetDisplayMedia
    \/ Continue

Spec == Init /\ [][Next]_vars

(***************************************************************************)
(* The life cycle of the SecurityLayer with what the platform delivers to  *)
(* it: the opening and closing of the viewer, its two intervals, key       *)
(* presses, capture calls and insertions of elements into the document.    *)
(***************************************************************************)
SupervisorNext ==
    \/ \E d \in DocIds : AddFile(d)
    \/ \E d \in DocIds : RemoveFile(d)
    \/ ProcessFiles
    \/ ProcessTimer
    \/ ProcessTimerThrows
    \/ OnClose
    \/ \E w \in Deltas, h \in Deltas : detectDevTools(w, h)
    \/ consoleCleaner
    \/ \E e \in KeyEvents : KeyDown(e)
    \/ CallGetDisplayMedia
    \/ Continue
    \/ \E n \in Nodes : NodeInserted(n)

SupervisorSpec == SupervisorInit /\ [][SupervisorNext]_vars

(***************************************************************************)
(* The SecurityLayer in a window whose size deltas stay at the threshold:   *)
(* no inspection panel is docked, every poll measures a quiet window.  The  *)
(* poll is an interval of 500 ms that runs as long as the layer is mounted, *)
(* hence the weak fairness of the poll.                                     *)
(***************************************************************************)
QuietNext ==
    \/ \E d \in DocIds : AddFile(d)
    \/ \E d \in DocIds : RemoveFile(d)
    \/ ProcessFiles
    \/ ProcessTimer
    \/ OnClose
    \/ detectDevTools(Threshold, Threshold)
    \/ \E e \in KeyEvents : KeyDown(e)
    \/ CallGetDisplayMedia
    \/ Continue

QuietSpec ==
    /\ Init
    /\ [][QuietNext]_vars
    /\ WF_vars(detectDevTools(Threshold, Threshold))

(***************************************************************************)
(* AIFeedbackChatbot.  A handler reads the state captured by the render    *)
(* that created it; React renders again at the end of every event that set *)
(* state, before the next event is dispatched, and some time after state   *)
(* was set by the continuation of an await.                                *)
(***************************************************************************)
\* the texts a send is called with or the input field holds; "" is also the
\* messageText of a call without argument
Texts == {"", " ", "help", "create"}

\* String.prototype.trim
Trim(t) == IF t = " " THEN "" ELSE t

\* messageText || input.trim()
TextToSend(messageText) == IF messageText # "" THEN messageText ELSE Trim(input)

\* textToSend.toLowerCase().includes("create") || ...includes("yes")
AsksToCreate(t) == t = "create"

\* what supabase.functions.invoke settles with: an error, an answer
\* without ticket data, an answer with ticket data
Outcomes == {"error", "plain", "ticket"}

\* the sequence without its i-th element
Without(seq, i) == [j \in 1..(Len(seq) - 1) |-> IF j < i THEN seq[j] ELSE seq[j + 1]]

\* a guard that does not test isLoading
SendBlocked_EmptyOnly(messageText) == TextToSend(messageText) = ""

\* if (!textToSend || isLoading) return
SendBlocked(messageText) == TextToSend(messageText) = "" \/ handlerIsLoading

\* onChange of the input field; the field is disabled in a render with
\* isLoading
setInput(t) ==
    /\ ~handlerIsLoading
    /\ input' = t
    /\ handlerIsLoading' = isLoading
    /\ UNCHANGED <<messages, isLoading, isCreatingTicket, showQuickActions, inFlight>>
    /\ UNCHANGED vaultVars

\* sendMessage up to its first await, called by the form, a quick action or
\* a suggestion; the event ends with a render
sendMessage(messageText) ==
    /\ Len(messages) < MaxMessages
    /\ IF SendBlocked(messageText)
       THEN UNCHANGED <<messages, input, isLoading, showQuickActions, inFlight>>
       ELSE /\ showQuickActions' = FALSE
            /\ messages' = Append(messages, "user")
            /\ input' = ""
            /\ isLoading' = TRUE
            /\ inFlight' = Append(inFlight, [text  |-> TextToSend(messageText),
                                             stage |-> "analyze"])
    /\ handlerIsLoading' = isLoading'
    /\ UNCHANGED isCreatingTicket
    /\ UNCHANGED vaultVars

\* the invoke of the i-th send in flight settles: the rest of the try block
\* up to the await of createTicket, or the catch and finally blocks
invokeSettles(i, outcome) ==
    /\ i \in DOMAIN inFlight
    /\ inFlight[i].stage = "analyze"
    /\ messages' = Append(messages, IF outcome = "error" THEN "error" ELSE "assistant")
    /\ IF outcome = "ticket" /\ AsksToCreate(inFlight[i].text)
       THEN /\ inFlight' = [inFlight EXCEPT ![i].stage = "ticket"]
            /\ isCreatingTicket' = TRUE
            /\ UNCHANGED isLoading
       ELSE /\ inFlight' = Without(inFlight, i)
            /\ isLoading' = FALSE
            /\ UNCHANGED isCreatingTicket
    /\ UNCHANGED <<input, showQuickActions, handlerIsLoading>>
    /\ UNCHANGED vaultVars

\* createTicket of the i-th send settles: its finally block, the
\* confirmation or the apology, then the finally block of sendMessage
ticketSettles(i, created) ==
    /\ i \in DOMAIN inFlight
    /\ inFlight[i].stage = "ticket"
    /\ isCreatingTicket' = FALSE
    /\ messages' = Append(messages, IF created THEN "confirmation" ELSE "apology")
    /\ isLoading' = FALSE
    /\ inFlight' = Without(inFlight, i)
    /\ UNCHANGED <<input, showQuickActions, handlerIsLoading>>
    /\ UNCHANGED vaultVars

\* handleSuggestionClick("Start Over"), a suggestion of the error message
startOver ==
    /\ \E i \in DOMAIN messages : messages[i] = "error"
    /\ messages' = <<messages[1]>>
    /\ showQuickActions' = TRUE
    /\ handlerIsLoading' = isLoading
    /\ UNCHANGED <<input, isLoading, isCreatingTicket, inFlight>>
    /\ UNCHANGED vaultVars

\* the render React schedules after state was set outside an event
ChatRender ==
    /\ handlerIsLoading # isLoading
    /\ handlerIsLoading' = isLoading
    /\ UNCHANGED <<messages, input, isLoading, isCreatingTicket, showQuickActions, inFlight>>
    /\ UNCHANGED vaultVars

ChatNext ==
    \/ \E t \in Texts : setInput(t)
    \/ \E messageText \in Texts : sendMessage(messageText)
    \/ \E i \in 1..MaxMessages, outcome \in Outcomes : invokeSettles(i, outcome)
    \/ \E i \in 1..MaxMessages, created \in BOOLEAN : ticketSettles(i, created)
    \/ startOver
    \/ ChatRender

\* every request settles, with an answer or an error
ChatSpec ==
    /\ Init
    /\ [][ChatNext]_vars
    /\ WF_vars(\E i \in 1..MaxMessages, outcome \in Outcomes : invokeSettles(i, outcome))
    /\ WF_vars(\E i \in 1..MaxMessages, created \in BOOLEAN : ticketSettles(i, created))


(***************************************************************************)
(* What the render functions put on screen, by kind.                       *)
(***************************************************************************)
ContentKinds == {"image", "loading", "frame", "text", "unavailable"}

ContentRendered ==
    /\ isFullscreen
    /\ SecurityLayerRender = "children"
    /\ DocumentViewerRender \in ContentKinds

ObstructionRendered ==
    /\ isFullscreen
    /\ \/ SecurityLayerRender \in {"AccessDenied", "CaptureBlocked"}
       \/ SecurityLayerRender = "children" /\ DocumentViewerRender = "ContentProtected"

\* the conversion of the current PDF ended in reader.onerror: it is not in
\* flight and no data is set
Stalled ==
    /\ ViewerMounted
    /\ IsPdf(currentFile)
    /\ currentFile \notin readers
    /\ pdfData = NoData

\* the per-document render selection: the document, its render kind, the zoom
Selection == <<currentFile, renderContent, zoom>>

(***************************************************************************)
(* Properties.                                                             *)
(***************************************************************************)

\* C1: while the viewer is open, if devToolsOpen, screenCaptureAttempt or
\* isBlurred is true then an obstruction is rendered and no document content
\* is; content and obstruction are never rendered together.
C1_ObstructionReplacesContent ==
    /\ (isFullscreen /\ (devToolsOpen \/ screenCaptureAttempt \/ isBlurred))
           => (ObstructionRendered /\ ~ContentRendered)
    /\ ~(ContentRendered /\ ObstructionRendered)

\* a converted PDF is current, the window lost focus, the obstruction hides it
C1_Witness ==
    /\ isFullscreen
    /\ isBlurred
    /\ renderContent = "frame"
    /\ ObstructionRendered

\* C2: whenever the embedded PDF frame is displayed, its data was produced by
\* the conversion of the document that is current.
C2_FrameShowsCurrentDocument == (View = "frame") => (pdfData = currentFile)

\* C3: whenever the viewer is open, the current index is within
\* [0, length-1] of the document list (stated here for the lists that have a
\* document, so that the range is not empty).
C3_IndexInRange ==
    (isFullscreen /\ Len(files) > 0)
        => (0 <= currentFileIndex /\ currentFileIndex <= Len(files) - 1)

\* C4: forward navigation takes index i to i+1 when i < length-1 and leaves it
\* at i when i = length-1; back navigation takes i to i-1 when i > 0 and
\* leaves it at 0; there is no wraparound.
C4_NavigateByOneNoWrap ==
    [][ /\ nextFile =>
              /\ currentFileIndex < Len(files) - 1
                    => currentFileIndex' = currentFileIndex + 1
              /\ currentFileIndex = Len(files) - 1
                    => currentFileIndex' = currentFileIndex
        /\ prevFile =>
              /\ currentFileIndex > 0 => currentFileIndex' = currentFileIndex - 1
              /\ currentFileIndex = 0 => currentFileIndex' = currentFileIndex
      ]_vars

\* three documents a.png, b.pdf, c.bin, the viewer on the last one
C4_Witness ==
    /\ ViewerMounted
    /\ files = <<1, 2, 3>>
    /\ currentFileIndex = 2

\* C5: the zoom level is within [50, 200] and differs from 100 by a multiple
\* of 25, after any sequence of zoom operations.
C5_ZoomInRangeOnGrid ==
    /\ MinZoom <= zoom
    /\ zoom <= MaxZoom
    /\ (zoom - InitialZoom) % ZoomStep = 0

\* the lowest zoom, reached by two zoom-outs
C5_Witness == ViewerMounted /\ zoom = MinZoom

\* C6: zoom-in raises the zoom by exactly 25 below 200 and leaves 200
\* unchanged; zoom-out lowers it by exactly 25 above 50 and leaves 50 unchanged.
C6_ZoomStepsAndStops ==
    [][ /\ handleZoomIn =>
              zoom' = IF zoom < MaxZoom THEN zoom + ZoomStep ELSE zoom
        /\ handleZoomOut =>
              zoom' = IF zoom > MinZoom THEN zoom - ZoomStep ELSE zoom
      ]_vars

\* the highest zoom, reached by four zoom-ins
C6_Witness == ViewerMounted /\ zoom = MaxZoom

\* C7: a window blur or a visibility change to hidden, delivered to the
\* mounted viewer, makes the render the 'Content Protected' obstruction; a
\* focus or a visibility change to visible makes it the content render
\* again; none of these events changes the render selection (current
\* document, render kind, zoom).
C7_FocusLossHidesAndRestores ==
    [][ /\ (ViewerMounted /\ (WindowBlur \/ (VisibilityChange /\ documentHidden')))
              => (View' = "ContentProtected" /\ Selection' = Selection)
        /\ (ViewerMounted /\ (WindowFocus \/ (VisibilityChange /\ ~documentHidden')))
              => (View' = renderContent' /\ Selection' = Selection)
      ]_vars

\* the window lost focus while a zoomed image was on screen
C7_Witness ==
    /\ ViewerMounted
    /\ ~windowFocused
    /\ View = "ContentProtected"
    /\ renderContent = "image"
    /\ zoom = InitialZoom + ZoomStep

\* C8: after a detection poll, devToolsOpen equals (width delta > 160 or
\* height delta > 160) as that poll measured them, and the 'Access Denied'
\* overlay is on screen exactly when it is true.
C8_PollSetsFlagFromMeasure ==
    [][ \A w \in Deltas, h \in Deltas :
          detectDevTools(w, h) =>
              /\ devToolsOpen' = (w > Threshold \/ h > Threshold)
              /\ (View' = "AccessDenied") = (w > Threshold \/ h > Threshold)
      ]_vars

\* the overlay is up
C8_Witness == isFullscreen /\ devToolsOpen /\ View = "AccessDenied"

\* C9: when the capture API exists at session start, the capture function is
\* the stub during the whole session, and every call of it sets
\* screenCaptureAttempt and is rejected; the platform's function never runs.
C9_CaptureCallsFlaggedAndRejected ==
    /\ [](isFullscreen => getDisplayMedia \in {"absent", "stub"})
    /\ [][ (isFullscreen /\ CallGetDisplayMedia)
              => (screenCaptureAttempt' /\ GetDisplayMediaResult = "rejected")
         ]_vars

\* a capture call was made during a session
C9_Witness ==
    /\ isFullscreen
    /\ getDisplayMedia = "stub"
    /\ screenCaptureAttempt

\* C10: while the SecurityLayer is mounted, every copy, cut, paste,
\* dragstart, drag, dragenter, dragover and drop event dispatched has its
\* default action cancelled, whatever the layer shows.
C10_ClipboardAndDragCancelled ==
    isFullscreen => \A t \in ClipboardTypes \cup DragTypes : Cancelled(t)

\* the layer shows 'Access Denied' and the events are still cancelled
C10_Witness ==
    /\ isFullscreen
    /\ SecurityLayerRender = "AccessDenied"
    /\ \A t \in ClipboardTypes \cup DragTypes : Cancelled(t)

\* C11: every beforeprint event dispatched while the SecurityLayer is mounted
\* has its default action cancelled.
C11_BeforePrintCancelled == isFullscreen => Cancelled("beforeprint")

\* C12: while the viewer is open, a key-down event of each shortcut class
\* (inspection, reload, find, print, undo, redo) has its default action
\* cancelled, whatever the letter case of the key.
C12_ShortcutsCancelled ==
    isFullscreen =>
        \A e \in InspectionShortcuts \cup ReloadShortcuts \cup FindShortcuts
                  \cup PrintShortcuts \cup UndoShortcuts \cup RedoShortcuts :
            KeyCancelled(e)

\* C13: once the SecurityLayer is unmounted nothing it acquired remains: no
\* interval of it is set, none of its listeners is registered, its observer
\* is disconnected, and no element carries a selectstart handler it attached.
C13_TeardownReleasesAll ==
    ~isFullscreen =>
        /\ timers \cap LayerTimers = {}
        /\ listeners \cap LayerListeners = {}
        /\ ~observing
        /\ protected = {}

\* C14: the session identifier in the watermark (and the creation timestamp,
\* which the same mount creates) is the same in every render between the
\* opening of the viewer and its closing: a render that follows an 'Access
\* Denied' or 'Screen Capture Blocked' episode shows the identifier that
\* was shown before it.
C14_SessionSameAcrossEpisodes ==
    [][ (isFullscreen /\ isFullscreen' /\ ViewerMounted')
            => sessionId' = shownSessionId ]_vars

\* C15: devToolsOpen changes from true to false only in a detection poll
\* that measures both size deltas at or under the threshold; no user action
\* (Continue, key press, focus change, navigation, zoom) clears it.
C15_ClearedOnlyByQuietPoll ==
    [][ (devToolsOpen /\ ~devToolsOpen')
            => \E w \in Deltas, h \in Deltas :
                   /\ detectDevTools(w, h)
                   /\ w <= Threshold
                   /\ h <= Threshold ]_vars

\* the block is up after a capture call, a focus loss and a hiding of the page
C15_Witness ==
    /\ isFullscreen
    /\ devToolsOpen
    /\ screenCaptureAttempt
    /\ ~windowFocused
    /\ documentHidden

\* C16: Continue sets screenCaptureAttempt to false and leaves devToolsOpen
\* unchanged; it is available only while the capture obstruction is shown,
\* that is when screenCaptureAttempt is true and devToolsOpen is false.
C16_ContinueClearsCaptureOnly ==
    [][ Continue =>
            /\ screenCaptureAttempt
            /\ ~devToolsOpen
            /\ ~screenCaptureAttempt'
            /\ devToolsOpen' = devToolsOpen ]_vars

\* the capture obstruction with its Continue button is on screen
C16_Witness ==
    /\ isFullscreen
    /\ screenCaptureAttempt
    /\ ~devToolsOpen
    /\ View = "CaptureBlocked"

C18_ViewByPrecedence ==
    (isFullscreen /\ Len(files) > 0) =>
        /\ devToolsOpen => View = "AccessDenied"
        /\ (~devToolsOpen /\ screenCaptureAttempt) => View = "CaptureBlocked"
        /\ (~devToolsOpen /\ ~screenCaptureAttempt /\ isBlurred)
               => View = "ContentProtected"
        /\ (~devToolsOpen /\ ~screenCaptureAttempt /\ ~isBlurred)
               => View \in {"loading", "image", "frame", "text", "unavailable"}

\* C19: for a current PDF with no obstruction, the loading placeholder is
\* shown from the moment the document becomes current until the conversion
\* of that same document completes, also when the document before it was a
\* PDF whose conversion had completed: while the conversion of the current
\* document is in flight, the view is the placeholder.
C19_LoadingUntilConverted ==
    (ViewerMounted /\ ~isBlurred /\ IsPdf(currentFile) /\ currentFile \in readers)
        => View = "loading"

\* C20: a failed conversion of the current PDF sets no data and starts no
\* retry, and the view of that document stays the loading placeholder for
\* as long as it remains current.
C20_FailureStaysPending ==
    [][ /\ \A d \in DocIds :
              ReaderError(d) => (pdfData' = pdfData /\ d \notin readers')
        /\ (Stalled /\ ~isBlurred /\ ViewerMounted' /\ ~isBlurred'
               /\ currentFile' = currentFile)
              => View' = "loading"
      ]_vars

\* C21: with no obstruction, the render kind is a function of the MIME type
\* of the current document only: 'image/...' gives the image, exactly
\* 'application/pdf' gives loading-or-frame, 'text/...' gives the text
\* placeholder, any other type gives 'Preview not available' with the name
\* and the type of that document.
C21_RenderKindByType ==
    (ViewerMounted /\ ~isBlurred /\ currentFile # NoFile) =>
        LET name == Catalogue[currentFile].name
        IN  /\ name = "a.png" => View = "image"
            /\ name \in {"b.pdf", "d.pdf"} => View \in {"loading", "frame"}
            /\ name = "e.txt" => View = "text"
            /\ name = "c.bin" =>
                   /\ View = "unavailable"
                   /\ PlaceholderLabel =
                          [file |-> "c.bin",
                           type |-> <<"application", "/", "octet-stream">>]

\* a.png, b.pdf, c.bin loaded, forward twice: c.bin gets the placeholder
C21_Witness ==
    /\ ViewerMounted
    /\ ~isBlurred
    /\ files = <<1, 2, 3>>
    /\ currentFileIndex = 2
    /\ View = "unavailable"

\* C22: context-menu events and the keyboard shortcuts the viewer suppresses
\* (inspection, reload, print, undo, redo) are cancelled in every state
\* between the opening of the viewer and its close, also while the layer
\* shows 'Access Denied' or 'Screen Capture Blocked'.
C22_SuppressionDuringObstruction ==
    isFullscreen =>
        /\ Cancelled("contextmenu")
        /\ \A e \in InspectionShortcuts \cup ReloadShortcuts \cup PrintShortcuts
                      \cup UndoShortcuts \cup RedoShortcuts :
               KeyCancelled(e)

\* C23: when the capture API is absent at the start of the session, the
\* layer starts all the same: screenCaptureAttempt stays false for the whole
\* session, and the poll, the clipboard and drag listeners and the key
\* handler are installed as usual.
C23_CaptureApiAbsenceTolerated ==
    (isFullscreen /\ getDisplayMedia = "absent") =>
        /\ ~screenCaptureAttempt
        /\ "detectDevTools" \in timers
        /\ Registered("SecurityLayer.handleKeyDown")
        /\ \A t \in ClipboardTypes \cup DragTypes : Cancelled(t)

\* no capture API; the poll runs and has raised 'Access Denied'
C23_Witness ==
    /\ isFullscreen
    /\ getDisplayMedia = "absent"
    /\ devToolsOpen
    /\ View = "AccessDenied"
    /\ Cancelled("copy")

\* C24: on a host without the MutationObserver API the start of the layer
\* raises no error: the viewer opens with the children rendered and the
\* mutation reaction inactive.
C24_ObserverApiAbsenceTolerated ==
    [][ (mutationObserver = "absent" /\ isProcessing /\ ~isProcessing')
            => (~crashed' /\ ViewerMounted' /\ ~observing') ]_vars

\* C25: once the capture function has been replaced it stays the rejecting
\* stub, through teardown and after it: every later call is rejected and the
\* platform's function is never put back.
C25_StubNeverRestored ==
    [][ getDisplayMedia = "stub"
            => (getDisplayMedia' = "stub" /\ GetDisplayMediaResult' = "rejected") ]_vars

C25_Witness ==
    /\ ~isFullscreen
    /\ ~isProcessing
    /\ getDisplayMedia = "stub"
    /\ GetDisplayMediaResult = "rejected"

C27_ZoomAndIndexIndependent ==
    [][ (ViewerMounted /\ ViewerMounted')
            => /\ currentFileIndex' # currentFileIndex => zoom' = zoom
               /\ zoom' # zoom => currentFileIndex' = currentFileIndex ]_vars

C27_Witness ==
    /\ ViewerMounted
    /\ zoom = InitialZoom + 2 * ZoomStep
    /\ currentFileIndex = 1
    /\ Len(files) = 2

\* C28: isBlurred and the flags of SecurityLayer are independent: a blur,
\* focus or visibility event changes neither flag, and when the viewer is
\* rendered again at the end of an obstruction, with no such event during
\* the obstruction, isBlurred has the value it had when the obstruction began.
C28_FocusIndependentOfProtection ==
    [][ /\ (windowVars' # windowVars)
              => (devToolsOpen' = devToolsOpen /\ screenCaptureAttempt' = screenCaptureAttempt)
        /\ (isFullscreen /\ ~ViewerMounted /\ ViewerMounted')
              => isBlurred' \in shownBlurred ]_vars

\* C30: when the viewer is rendered again at the end of an obstruction its
\* zoom is the zoom it had when the obstruction began.
C30_ZoomSameAcrossEpisodes ==
    [][ (isFullscreen /\ ~ViewerMounted /\ ViewerMounted')
            => zoom' = shownZoom ]_vars

\* C29: while the observer is attached every element that enters the
\* document, the descendants of an inserted subtree included, carries the
\* selection-prevention handler after the insertion; an element that was in
\* the document before the observer attached never carries it.
C29_InsertedElementsProtected ==
    /\ [][ observing => (inDocument' \ inDocument) \subseteq protected' ]_vars
    /\ [](protected \cap PresentAtLoad = {})

\* C31: after every blur, focus or visibility event that a mounted viewer
\* receives, isBlurred is true when the window has no focus or the page is
\* hidden.
C31_HiddenWhileUnfocusedOrHidden ==
    [][ (ViewerMounted /\ ViewerMounted' /\ windowVars' # windowVars)
            => ((~windowFocused' \/ documentHidden') => isBlurred') ]_vars

\* C32: screenCaptureAttempt, once true, becomes false only by Continue: no
\* poll, key press, blur, focus or visibility event clears it; while it is
\* true the DocumentViewer is not mounted and an obstruction is shown.
C32_CaptureFlagHeldUntilContinue ==
    /\ [][ (screenCaptureAttempt /\ ~screenCaptureAttempt') => Continue ]_vars
    /\ [](screenCaptureAttempt => (~ViewerMounted /\ ObstructionRendered))

C32_Witness ==
    /\ isFullscreen
    /\ screenCaptureAttempt
    /\ devToolsOpen
    /\ ~windowFocused
    /\ documentHidden

\* C33: in a window whose size deltas are at or under the threshold, a key
\* press that handleKeyDown of SecurityLayer matches sets devToolsOpen, the
\* next poll clears it, and with the poll running 'Access Denied' caused by
\* the key press always clears eventually.
C33_KeyObstructionClears ==
    /\ [][ \A e \in KeyEvents :
               (KeySetsDevToolsOpen(e) /\ KeyDown(e)) => devToolsOpen' ]_vars
    /\ [][ (devToolsOpen /\ detectDevTools(Threshold, Threshold))
               => ~devToolsOpen' ]_vars
    /\ (devToolsOpen ~> ~devToolsOpen)

C33_Witness ==
    /\ isFullscreen
    /\ devToolsOpen
    /\ SecurityLayerRender = "AccessDenied"
    /\ \E e \in KeyEvents : KeySetsDevToolsOpen(e)

\* C34: whenever the full-screen viewer is shown the list holds at least one
\* document.
C34_ViewerNeverEmpty == isFullscreen => Len(files) > 0

\* C35: at most one send is in flight; while one is in flight a call of
\* sendMessage adds no message and starts no request; and isLoading, once
\* true, becomes false again.
C35_OneRequestInFlight ==
    /\ [](Len(inFlight) <= 1)
    /\ [][ inFlight # <<>>
              => /\ Len(inFlight') <= Len(inFlight)
                 /\ messages' # Append(messages, "user") ]_vars
    /\ (isLoading ~> ~isLoading)

C35_Witness ==
    /\ Len(inFlight) = 1
    /\ inFlight[1].stage = "ticket"
    /\ isLoading
    /\ handlerIsLoading
    /\ \E messageText \in Texts : TextToSend(messageText) # ""

====
